---- MODULE Spec2Model ----
(***************************************************************************)
(* ItemService (src/src/modules/item/services/item.service.ts): the five   *)
(* asynchronous operations list, get, create, update and delete over the   *)
(* Item collection of a document store.                                    *)
(*                                                                         *)
(* Every operation of the service contains exactly one await, on one store *)
(* primitive.  A call is therefore modelled in two steps: Invoke (the      *)
(* caller starts the call, its arguments are fixed and the request is in   *)
(* flight) and the operation's own action (the store executes the          *)
(* primitive atomically and the continuation after the await turns the     *)
(* reply into the call's outcome).  Calls of different callers interleave  *)
(* freely between the two steps.                                           *)
(*                                                                         *)
(* The Item model, toDTO and ItemNotFoundError are imported by the service *)
(* from modules outside src/; they are modelled from spec.md (sections 3,  *)
(* 4.1 and 6).  Whether the collection enforces uniqueness of `id` is not  *)
(* decided there ("if the store itself enforces uniqueness ... if the      *)
(* store does not enforce uniqueness"), so both stores are initial states. *)
(***************************************************************************)
EXTENDS Integers, Sequences, FiniteSets, TLC

\* ------------------------------------------------------------------ bounds
\* Number of documents the model lets `new Item(dto)` construct (each takes a
\* fresh _id).
MaxCreates == 3

Ids == {1, 2, 3}
\* The <<name, price>> pairs the callers send: they differ in both fields.
Payloads == {<<"Widget", 9>>, <<"Gadget", 7>>}
Callers == {"c1", "c2"}

\* ------------------------------------------------------------------- types
ItemDTO == {[id |-> i, name |-> p[1], price |-> p[2]] : i \in Ids, p \in Payloads}

Null == [null |-> TRUE]
Idle == [op |-> "idle"]
None == [op |-> "none"]

ItemNotFoundError == [kind |-> "ItemNotFoundError"]
\* A failure of the store itself (duplicate key); the service passes it on.
StoreError == [kind |-> "StoreError"]
Ok(v) == [kind |-> "ok", value |-> v]

Requests ==
    {[op |-> "list"]}
        \cup [op : {"get"}, id : Ids]
        \cup [op : {"create"}, dto : ItemDTO]
        \cup [op : {"update"}, dto : ItemDTO]
        \cup [op : {"delete"}, id : Ids]

VARIABLES
    store,        \* the Item collection: documents in natural (insertion) order
    uniqueIndex,  \* whether the collection has a unique index on `id`
    nextOid,      \* the _id the next constructed document gets
    calls,        \* per caller: the request in flight, or Idle
    last          \* the call that completed last: its request and its outcome

vars == <<store, uniqueIndex, nextOid, calls, last>>

\* ------------------------------------------------- the Item model (store)
\* Positions of the documents of s that match the filter { id }.
Matching(s, id) == {i \in 1..Len(s) : s[i].id = id}

Min(S) == CHOOSE x \in S : \A y \in S : x <= y

\* s without its i-th element.
RemoveAt(s, i) == [j \in 1..(Len(s) - 1) |-> IF j < i THEN s[j] ELSE s[j + 1]]

\* new Item(dto): a document with the DTO's fields and a fresh _id.
NewItem(dto, oid) ==
    [oid |-> oid, id |-> dto.id, name |-> dto.name, price |-> dto.price]

\* utils.toDTO: the projection of a document on id, name, price.
toDTO(item) == [id |-> item.id, name |-> item.name, price |-> item.price]

\* Item.find(): every document, in store order.
find(s) == s

\* Item.findOne({ id }): the first matching document, or null.
findOne(s, id) ==
    IF Matching(s, id) = {} THEN Null ELSE s[Min(Matching(s, id))]

\* Item.findOneAndUpdate({ id }, { name, price }, { new: true }): sets name and
\* price of the first matching document and replies with the updated document,
\* or replies null and writes nothing.
findOneAndUpdate(s, id, name, price) ==
    IF Matching(s, id) = {}
    THEN [store |-> s, doc |-> Null]
    ELSE LET i == Min(Matching(s, id))
             d == [s[i] EXCEPT !.name = name, !.price = price]
         IN  [store |-> [s EXCEPT ![i] = d], doc |-> d]

\* Item.findOneAndDelete({ id }): removes the first matching document and
\* replies with it, or replies null.
findOneAndDelete(s, id) ==
    IF Matching(s, id) = {}
    THEN [store |-> s, doc |-> Null]
    ELSE LET i == Min(Matching(s, id))
         IN  [store |-> RemoveAt(s, i), doc |-> s[i]]

\* document.save() of a new document: an insert; a unique index on id rejects
\* a duplicate key.
save(s, doc, unique) ==
    IF unique /\ Matching(s, doc.id) # {}
    THEN [store |-> s, doc |-> Null]
    ELSE [store |-> Append(s, doc), doc |-> doc]

\* ------------------------------------------------------------ the service
\* items.map(item => toDTO(item)): line 18.
toDTOs(items) == [i \in 1..Len(items) |-> toDTO(items[i])]

\* Mutant of listCall: the query returns the first document only.
listCall_firstOnly(s) ==
    IF Len(s) = 0 THEN Ok(<<>>) ELSE Ok(<<toDTO(s[1])>>)

\* list(): lines 15-19.  The outcome of the call on collection s.
listCall(s) ==
    LET items == find(s)
    IN  Ok(toDTOs(items))

\* Mutant of getCall: the filter is dropped, findOne({}).
getCall_anyItem(s, id) ==
    IF Len(s) = 0 THEN ItemNotFoundError ELSE Ok(toDTO(s[1]))

\* get(id): lines 27-34.
getCall(s, id) ==
    LET item == findOne(s, id)
    IN  IF item = Null THEN ItemNotFoundError ELSE Ok(toDTO(item))

\* Mutant of createCall: the document is built without the DTO's price.
createCall_noPrice(s, dto, oid, unique) ==
    LET newItem == [NewItem(dto, oid) EXCEPT !.price = 0]
        r == save(s, newItem, unique)
    IN  [store |-> r.store,
         outcome |-> IF r.doc = Null THEN StoreError ELSE Ok(toDTO(r.doc))]

\* Mutant of createCall: an upsert, which overwrites a stored Item of that id.
createCall_overwrite(s, dto, oid, unique) ==
    IF Matching(s, dto.id) = {}
    THEN [store |-> Append(s, NewItem(dto, oid)), outcome |-> Ok(dto)]
    ELSE LET i == Min(Matching(s, dto.id))
         IN  [store |-> [s EXCEPT ![i] = NewItem(dto, s[i].oid)],
              outcome |-> Ok(dto)]

\* create(dto): lines 41-46.  A failure of save() propagates unchanged.
createCall(s, dto, oid, unique) ==
    LET newItem == NewItem(dto, oid)
        r == save(s, newItem, unique)
    IN  [store |-> r.store,
         outcome |-> IF r.doc = Null THEN StoreError ELSE Ok(toDTO(r.doc))]

\* Mutant of updateCall: { upsert: true }, an absent id is inserted.
updateCall_upsert(s, dto) ==
    LET r == findOneAndUpdate(s, dto.id, dto.name, dto.price)
    IN  IF r.doc = Null
        THEN [store |-> Append(s, NewItem(dto, 0)), outcome |-> Ok(dto)]
        ELSE [store |-> r.store, outcome |-> Ok(toDTO(r.doc))]

\* Mutant of updateCall: { new: false }, the reply is the document as it was.
updateCall_returnsOld(s, dto) ==
    LET r == findOneAndUpdate(s, dto.id, dto.name, dto.price)
    IN  [store |-> r.store,
         outcome |-> IF r.doc = Null THEN ItemNotFoundError
                     ELSE Ok(toDTO(findOne(s, dto.id)))]

\* update(dto): lines 54-62.
updateCall(s, dto) ==
    LET r == findOneAndUpdate(s, dto.id, dto.name, dto.price)
    IN  [store |-> r.store,
         outcome |-> IF r.doc = Null THEN ItemNotFoundError ELSE Ok(toDTO(r.doc))]

\* Mutant of deleteCall: the filter is dropped, findOneAndDelete({}).
deleteCall_anyItem(s, id) ==
    IF Len(s) = 0
    THEN [store |-> s, outcome |-> ItemNotFoundError]
    ELSE [store |-> Tail(s), outcome |-> Ok(Null)]

\* delete(id): lines 70-77.
deleteCall(s, id) ==
    LET r == findOneAndDelete(s, id)
    IN  [store |-> r.store,
         outcome |-> IF r.doc = Null THEN ItemNotFoundError ELSE Ok(Null)]

\* The promise of caller c settles with the outcome.
Completed(c, outcome) ==
    /\ last' = [req |-> calls[c], outcome |-> outcome]
    /\ calls' = [calls EXCEPT ![c] = Idle]

\* A caller starts a call: the request is in flight until the store serves it.
Invoke(c, r) ==
    /\ calls[c] = Idle
    /\ calls' = [calls EXCEPT ![c] = r]
    /\ UNCHANGED <<store, uniqueIndex, nextOid, last>>

list(c) ==
    /\ calls[c].op = "list"
    /\ Completed(c, listCall(store))
    /\ UNCHANGED <<store, uniqueIndex, nextOid>>

get(c) ==
    /\ calls[c].op = "get"
    /\ Completed(c, getCall(store, calls[c].id))
    /\ UNCHANGED <<store, uniqueIndex, nextOid>>

create(c) ==
    /\ calls[c].op = "create"
    /\ nextOid <= MaxCreates
    /\ LET r == createCall(store, calls[c].dto, nextOid, uniqueIndex)
       IN  /\ store' = r.store
           /\ Completed(c, r.outcome)
    /\ nextOid' = nextOid + 1
    /\ UNCHANGED uniqueIndex

update(c) ==
    /\ calls[c].op = "update"
    /\ LET r == updateCall(store, calls[c].dto)
       IN  /\ store' = r.store
           /\ Completed(c, r.outcome)
    /\ UNCHANGED <<uniqueIndex, nextOid>>

delete(c) ==
    /\ calls[c].op = "delete"
    /\ LET r == deleteCall(store, calls[c].id)
       IN  /\ store' = r.store
           /\ Completed(c, r.outcome)
    /\ UNCHANGED <<uniqueIndex, nextOid>>

Init ==
    /\ store = <<>>
    /\ uniqueIndex \in BOOLEAN
    /\ nextOid = 1
    /\ calls = [c \in Callers |-> Idle]
    /\ last = [req |-> None, outcome |-> Ok(Null)]

\* The calls of the callers in C, with requests drawn from R.
NextOver(C, R) ==
    \/ \E c \in C, r \in R : Invoke(c, r)
    \/ \E c \in C : list(c)
    \/ \E c \in C : get(c)
    \/ \E c \in C : create(c)
    \/ \E c \in C : update(c)
    \/ \E c \in C : delete(c)

\* One call at a time, over every request.
Next == NextOver({"c1"}, Requests)

Spec == Init /\ [][Next]_vars

\* Two callers with calls in flight at once, over the requests on two ids.
ConcurrentRequests ==
    {r \in Requests : CASE r.op = "list" -> TRUE
                        [] r.op \in {"get", "delete"} -> r.id \in {1, 2}
                        [] OTHER -> r.dto.id \in {1, 2}}

ConcurrentNext == NextOver(Callers, ConcurrentRequests)

ConcurrentSpec == Init /\ [][ConcurrentNext]_vars

\* ------------------------------------------------------------- properties
\* The call of caller c completes in this step.
Served(c) == calls[c] # Idle /\ calls'[c] = Idle

\* The id a get, create, update or delete request is about.
ReqId(r) == IF r.op \in {"get", "delete"} THEN r.id ELSE r.dto.id

\* r is an update or a delete of id.
Rewrites(r, id) == r.op \in {"update", "delete"} /\ ReqId(r) = id

\* The documents of s with the given id, in store order.
SelectId(s, id) == SelectSeq(s, LAMBDA d : d.id = id)

DistinctIds(s) == \A i, j \in 1..Len(s) : s[i].id = s[j].id => i = j

\* C1: create(dto) on an id that matches no stored Item returns a DTO equal to
\* dto, and get(dto.id) answers with dto from then on: every step that is not
\* an update or a delete of an id leaves the answer of get for that id as it is.
C1_Step(c) ==
    LET r == calls[c]
    IN  /\ (r.op = "create" /\ Matching(store, r.dto.id) = {}) =>
              /\ last'.outcome = Ok(r.dto)
              /\ getCall(store', r.dto.id) = Ok(r.dto)
        /\ \A id \in Ids :
              (Matching(store, id) # {} /\ ~Rewrites(r, id)) =>
                  getCall(store', id) = getCall(store, id)

C1_RoundTrip == [][\A c \in Callers : Served(c) => C1_Step(c)]_vars

\* A create on a fresh id has just completed and get answers with its DTO.
C1_Witness ==
    /\ last.req.op = "create"
    /\ last.outcome = Ok(last.req.dto)
    /\ Cardinality(Matching(store, last.req.dto.id)) = 1
    /\ getCall(store, last.req.dto.id) = Ok(last.req.dto)
    /\ Len(store) >= 2

\* C2: get, update or delete of an id that matches no stored Item fails with
\* ItemNotFoundError and leaves the store exactly as it was (update does not
\* insert).
C2_Step(c) ==
    LET r == calls[c]
    IN  (r.op \in {"get", "update", "delete"} /\ Matching(store, ReqId(r)) = {}) =>
            /\ last'.outcome = ItemNotFoundError
            /\ store' = store

C2_NotFound == [][\A c \in Callers : Served(c) => C2_Step(c)]_vars

\* An update of an absent id has failed on a store that holds other Items.
C2_Witness ==
    /\ last.req.op = "update"
    /\ last.outcome = ItemNotFoundError
    /\ Matching(store, last.req.dto.id) = {}
    /\ store # <<>>

\* C3: update(dto) on an existing id changes name and price of one Item with
\* that id and nothing else: no document changes its id or its _id, documents of
\* other ids and all documents but one are unchanged, the number of documents is
\* unchanged, the call returns dto, and get(dto.id) then answers with dto.
C3_Step(c) ==
    LET r == calls[c]
    IN  (r.op = "update" /\ Matching(store, r.dto.id) # {}) =>
            /\ Len(store') = Len(store)
            /\ \A j \in 1..Len(store) :
                  /\ store'[j].id = store[j].id
                  /\ store'[j].oid = store[j].oid
                  /\ store[j].id # r.dto.id => store'[j] = store[j]
            /\ Cardinality({j \in 1..Len(store) : store'[j] # store[j]}) <= 1
            /\ last'.outcome = Ok(r.dto)
            /\ getCall(store', r.dto.id) = Ok(r.dto)

C3_UpdateFrame == [][\A c \in Callers : Served(c) => C3_Step(c)]_vars

\* An update has just changed an Item in a store that holds another Item.
C3_Witness ==
    /\ last.req.op = "update"
    /\ last.outcome = Ok(last.req.dto)
    /\ getCall(store, last.req.dto.id) = Ok(last.req.dto)
    /\ \E j \in 1..Len(store) : store[j].id # last.req.dto.id

\* C4: delete(id) on an existing id succeeds, removes exactly one document,
\* leaves every Item of another id unchanged, and get(id) fails with
\* ItemNotFoundError from then on, until a create of that id.
C4_Step(c) ==
    LET r == calls[c]
    IN  /\ (r.op = "delete" /\ Matching(store, r.id) # {}) =>
              /\ last'.outcome = Ok(Null)
              /\ Len(store') = Len(store) - 1
              /\ \A b \in Ids \ {r.id} : SelectId(store', b) = SelectId(store, b)
              /\ getCall(store', r.id) = ItemNotFoundError
        /\ \A id \in Ids :
              (Matching(store, id) = {} /\ ~(r.op = "create" /\ r.dto.id = id)) =>
                  getCall(store', id) = ItemNotFoundError

C4_DeleteThenGet == [][\A c \in Callers : Served(c) => C4_Step(c)]_vars

\* C5: no two stored Items ever have the same id.
C5_UniqueIds == DistinctIds(store)

\* C6: on a store whose Items have distinct ids, get of a stored id returns
\* the DTO whose id, name and price are the stored fields of the Item with
\* that id, and leaves the store unchanged.
C6_Step(c) ==
    LET r == calls[c]
    IN  (r.op = "get" /\ DistinctIds(store) /\ Matching(store, r.id) # {}) =>
            /\ store' = store
            /\ last'.outcome.kind = "ok"
            /\ \E i \in 1..Len(store) :
                  /\ store[i].id = r.id
                  /\ last'.outcome.value.id = store[i].id
                  /\ last'.outcome.value.name = store[i].name
                  /\ last'.outcome.value.price = store[i].price

C6_GetStored == [][\A c \in Callers : Served(c) => C6_Step(c)]_vars

\* A get has just returned the second of two stored Items of distinct ids.
C6_Witness ==
    /\ last.req.op = "get"
    /\ last.outcome.kind = "ok"
    /\ DistinctIds(store)
    /\ Len(store) >= 2
    /\ store[2].id = last.req.id
    /\ last.outcome.value = toDTO(store[2])

\* C7: list() succeeds with one DTO per stored Item, in store order, each
\* with the stored id, name and price (the empty sequence on an empty store),
\* and leaves the store unchanged.
C7_Step(c) ==
    LET r == calls[c]
    IN  (r.op = "list") =>
            /\ store' = store
            /\ last'.outcome.kind = "ok"
            /\ Len(last'.outcome.value) = Len(store)
            /\ \A i \in 1..Len(store) :
                  /\ last'.outcome.value[i].id = store[i].id
                  /\ last'.outcome.value[i].name = store[i].name
                  /\ last'.outcome.value[i].price = store[i].price

C7_ListAll == [][\A c \in Callers : Served(c) => C7_Step(c)]_vars

\* list() has just returned three DTOs after creates of ids 1, 2, 3.
C7_Witness ==
    /\ last.req.op = "list"
    /\ Len(last.outcome.value) = 3
    /\ \A i \in 1..3 : last.outcome.value[i].id = i /\ store[i].id = i

\* C8: calls on different ids do not interfere.  The outcome of a call on an id
\* and the Items of that id after it are those of the same call made on a
\* store holding the Items of that id alone, and the call leaves the Items of
\* every other id as they are; list and the start of a call write nothing.
Alone(r, s) ==
    CASE r.op = "get" -> [store |-> s, outcome |-> getCall(s, r.id)]
      [] r.op = "create" -> createCall(s, r.dto, nextOid, uniqueIndex)
      [] r.op = "update" -> updateCall(s, r.dto)
      [] r.op = "delete" -> deleteCall(s, r.id)

C8_Step(c) ==
    LET r == calls[c]
    IN  IF r.op = "list"
        THEN store' = store
        ELSE LET a == Alone(r, SelectId(store, ReqId(r)))
             IN  /\ last'.outcome = a.outcome
                 /\ SelectId(store', ReqId(r)) = a.store
                 /\ \A b \in Ids \ {ReqId(r)} :
                       SelectId(store', b) = SelectId(store, b)

C8_NonInterference ==
    [][/\ \A c \in Callers : Served(c) => C8_Step(c)
       /\ (\A c \in Callers : ~Served(c)) => store' = store]_vars

\* A delete has completed while a call that writes another stored id is in
\* flight, and the store holds an Item of that other id before the first.
C8_Witness ==
    /\ last.req.op = "delete"
    /\ last.outcome = Ok(Null)
    /\ \E c \in Callers :
          /\ calls[c].op \in {"create", "update", "delete"}
          /\ ReqId(calls[c]) # last.req.id
          /\ store # <<>>
          /\ store[1].id = ReqId(calls[c])

\* C9: every call takes effect in one atomic store step, so concurrent update
\* and delete calls on one id are linearizable: an update that finds the id
\* takes effect whole (get then answers with its DTO, until the next update or
\* delete of the id: last writer wins), an update served right after a
\* successful delete of the same id fails with ItemNotFoundError and leaves no
\* Item of that id, and the start of a call writes nothing.
C9_Step(c) ==
    LET r == calls[c]
    IN  /\ (r.op = "update" /\ Matching(store, r.dto.id) # {}) =>
              /\ last'.outcome = Ok(r.dto)
              /\ getCall(store', r.dto.id) = Ok(r.dto)
        /\ \A id \in Ids :
              (Matching(store, id) # {} /\ ~Rewrites(r, id)) =>
                  getCall(store', id) = getCall(store, id)
        /\ ( /\ r.op = "update"
             /\ last.req.op = "delete"
             /\ last.outcome = Ok(Null)
             /\ last.req.id = r.dto.id ) =>
              /\ last'.outcome = ItemNotFoundError
              /\ Matching(store', r.dto.id) = {}

C9_Linearizable ==
    [][/\ \A c \in Callers : Served(c) => C9_Step(c)
       /\ (\A c \in Callers : ~Served(c)) => store' = store]_vars

\* C10: create never fails with ItemNotFoundError, whether or not the id is
\* stored; when it succeeds the store is the old store, unchanged, followed by
\* one new document with dto's id, name and price.
C10_Step(c) ==
    LET r == calls[c]
    IN  (r.op = "create") =>
            /\ last'.outcome # ItemNotFoundError
            /\ (last'.outcome.kind = "ok") =>
                  /\ Len(store') = Len(store) + 1
                  /\ SubSeq(store', 1, Len(store)) = store
                  /\ toDTO(store'[Len(store')]) = r.dto
            /\ (last'.outcome.kind # "ok") => store' = store

C10_CreateAppends == [][\A c \in Callers : Served(c) => C10_Step(c)]_vars

\* A create of an id that was already stored has succeeded: both are stored.
C10_Witness ==
    /\ last.req.op = "create"
    /\ last.outcome.kind = "ok"
    /\ Cardinality(Matching(store, last.req.dto.id)) = 2
    /\ Len(store) = 3

====
